---- MODULE Spec2Model ----
(***************************************************************************)
(* Model of .github/scripts/determine_next_version.py: the release-tag     *)
(* resolver.  Strings are sequences of one-character strings, so that the  *)
(* parsing, formatting, len() and indexing the script performs on them are *)
(* computed and not assumed.                                               *)
(*                                                                         *)
(* The script uses the python-semver package.  What the model takes from   *)
(* that package: VersionInfo.parse raises ValueError unless the text       *)
(* matches the semver grammar; VersionInfo.prerelease and .build are       *)
(* Optional[str] (the text after "-" / "+", dots included), so len() of a  *)
(* prerelease counts characters and [0] is its first character; the        *)
(* constructor stores str(prerelease); str() renders                       *)
(* major.minor.patch[-prerelease][+build]; comparison follows semver       *)
(* precedence and ignores build; a VersionInfo object is always truthy.    *)
(***************************************************************************)
EXTENDS Integers, Sequences, FiniteSets, TLC

\* ------------------------------------------------------------------ text
Digits == <<"0", "1", "2", "3", "4", "5", "6", "7", "8", "9">>

DigitSet == {Digits[i] : i \in 1..10}

\* the characters of [0-9a-zA-Z-], in code-point order
Alphabet ==
  <<"-">> \o Digits \o
  <<"A", "B", "C", "D", "E", "F", "G", "H", "I", "J", "K", "L", "M",
    "N", "O", "P", "Q", "R", "S", "T", "U", "V", "W", "X", "Y", "Z">> \o
  <<"a", "b", "c", "d", "e", "f", "g", "h", "i", "j", "k", "l", "m",
    "n", "o", "p", "q", "r", "s", "t", "u", "v", "w", "x", "y", "z">>

IdentChars == {Alphabet[i] : i \in 1..Len(Alphabet)}

Ord(c) == CHOOSE i \in 1..Len(Alphabet) : Alphabet[i] = c

DigitVal(c) == (CHOOSE i \in 1..10 : Digits[i] = c) - 1

\* str.find: index of the first occurrence of c in s, 0 when there is none
Find(s, c) ==
  LET at == {i \in 1..Len(s) : s[i] = c}
  IN  IF at = {} THEN 0 ELSE CHOOSE i \in at : \A j \in at : i <= j

\* str.split(sep): "a..b" gives three parts, "" gives one empty part
RECURSIVE Split(_, _)
Split(s, sep) ==
  LET i == Find(s, sep)
  IN  IF i = 0 THEN <<s>>
      ELSE <<SubSeq(s, 1, i - 1)>> \o Split(SubSeq(s, i + 1, Len(s)), sep)

AllDigits(s) == Len(s) > 0 /\ \A i \in 1..Len(s) : s[i] \in DigitSet

\* int(text) of a digit string
RECURSIVE ToInt(_)
ToInt(s) ==
  IF Len(s) = 0 THEN 0
  ELSE 10 * ToInt(SubSeq(s, 1, Len(s) - 1)) + DigitVal(s[Len(s)])

\* "%d" % n
RECURSIVE IntToStr(_)
IntToStr(n) ==
  IF n < 10 THEN <<Digits[n + 1]>>
  ELSE IntToStr(n \div 10) \o <<Digits[(n % 10) + 1]>>

\* cmp() of two str values: code-point lexicographic order
RECURSIVE StrCmp(_, _)
StrCmp(a, b) ==
  IF Len(a) = 0 /\ Len(b) = 0 THEN 0
  ELSE IF Len(a) = 0 THEN -1
  ELSE IF Len(b) = 0 THEN 1
  ELSE IF Ord(a[1]) < Ord(b[1]) THEN -1
  ELSE IF Ord(a[1]) > Ord(b[1]) THEN 1
  ELSE StrCmp(Tail(a), Tail(b))

IntCmp(a, b) == IF a < b THEN -1 ELSE IF a > b THEN 1 ELSE 0

\* ------------------------------------------------------- semver grammar
\* 0|[1-9]\d*
IsNumericIdent(s) == AllDigits(s) /\ (Len(s) = 1 \/ s[1] # "0")

\* 0|[1-9]\d*|\d*[a-zA-Z-][0-9a-zA-Z-]*
IsPrereleaseIdent(s) ==
  /\ Len(s) > 0
  /\ \A i \in 1..Len(s) : s[i] \in IdentChars
  /\ AllDigits(s) => IsNumericIdent(s)

\* [0-9a-zA-Z-]+
IsBuildIdent(s) == Len(s) > 0 /\ \A i \in 1..Len(s) : s[i] \in IdentChars

\* the groups of the semver pattern in s: build is what follows the first
\* "+", prerelease what follows the first "-" before it, core the rest
Groups(s) ==
  LET plus == Find(s, "+")
      head == IF plus = 0 THEN s ELSE SubSeq(s, 1, plus - 1)
      dash == Find(head, "-")
  IN  [core           |-> IF dash = 0 THEN head ELSE SubSeq(head, 1, dash - 1),
       has_prerelease |-> dash # 0,
       prerelease     |-> IF dash = 0 THEN <<>> ELSE SubSeq(head, dash + 1, Len(head)),
       has_build      |-> plus # 0,
       build          |-> IF plus = 0 THEN <<>> ELSE SubSeq(s, plus + 1, Len(s))]

\* VersionInfo.parse succeeds (no ValueError): the text matches the pattern
IsSemver(s) ==
  LET g == Groups(s)
  IN  /\ LET core == Split(g.core, ".")
         IN  Len(core) = 3 /\ \A i \in 1..3 : IsNumericIdent(core[i])
      /\ g.has_prerelease =>
           LET ids == Split(g.prerelease, ".")
           IN  \A i \in 1..Len(ids) : IsPrereleaseIdent(ids[i])
      /\ g.has_build =>
           LET ids == Split(g.build, ".")
           IN  \A i \in 1..Len(ids) : IsBuildIdent(ids[i])

\* a VersionInfo; an absent prerelease or build (None) is the empty text
VersionInfo(major, minor, patch, prerelease, build) ==
  [major |-> major, minor |-> minor, patch |-> patch,
   prerelease |-> prerelease, build |-> build]

\* VersionInfo.parse, for text that IsSemver
parse(s) ==
  LET g    == Groups(s)
      core == Split(g.core, ".")
  IN  VersionInfo(ToInt(core[1]), ToInt(core[2]), ToInt(core[3]), g.prerelease, g.build)

\* str(version)
ToStr(v) ==
  IntToStr(v.major) \o <<".">> \o IntToStr(v.minor) \o <<".">> \o IntToStr(v.patch)
    \o (IF Len(v.prerelease) > 0 THEN <<"-">> \o v.prerelease ELSE <<>>)
    \o (IF Len(v.build) > 0 THEN <<"+">> \o v.build ELSE <<>>)

\* ------------------------------------------------- VersionInfo methods
\* the parts of a prerelease as semver's comparison sees them: digit-only
\* parts are numbers, the others stay text
IsNumberPart(part) == AllDigits(part)

\* cmp_prerelease_tag: numbers by value, a number below any text, text by str order
PartCmp(a, b) ==
  IF IsNumberPart(a) /\ IsNumberPart(b) THEN IntCmp(ToInt(a), ToInt(b))
  ELSE IF IsNumberPart(a) THEN -1
  ELSE IF IsNumberPart(b) THEN 1
  ELSE StrCmp(a, b)

\* the loop of _nat_cmp over zip(a_parts, b_parts); 0 when no pair differs
RECURSIVE ZipCmp(_, _)
ZipCmp(ap, bp) ==
  IF Len(ap) = 0 \/ Len(bp) = 0 THEN 0
  ELSE IF PartCmp(ap[1], bp[1]) # 0 THEN PartCmp(ap[1], bp[1])
  ELSE ZipCmp(Tail(ap), Tail(bp))

\* _nat_cmp(a, b) on two prerelease texts (None is the empty text)
NatCmp(a, b) ==
  LET z == ZipCmp(Split(a, "."), Split(b, "."))
  IN  IF z # 0 THEN z ELSE IntCmp(Len(a), Len(b))

\* VersionInfo.compare: major, minor, patch, then the prerelease, where a
\* version without prerelease is above the same version with one
compare(a, b) ==
  IF a.major # b.major THEN IntCmp(a.major, b.major)
  ELSE IF a.minor # b.minor THEN IntCmp(a.minor, b.minor)
  ELSE IF a.patch # b.patch THEN IntCmp(a.patch, b.patch)
  ELSE IF NatCmp(a.prerelease, b.prerelease) = 0 THEN 0
  ELSE IF Len(a.prerelease) = 0 THEN 1
  ELSE IF Len(b.prerelease) = 0 THEN -1
  ELSE NatCmp(a.prerelease, b.prerelease)

\* finalize_version that drops the build only
finalize_version_keeps_prerelease(v) ==
  VersionInfo(v.major, v.minor, v.patch, v.prerelease, <<>>)

finalize_version(v) == VersionInfo(v.major, v.minor, v.patch, <<>>, <<>>)

\* the minor bump where the patch bump was meant
bump_patch_as_minor(v) == VersionInfo(v.major, v.minor + 1, 0, <<>>, <<>>)

bump_patch(v) == VersionInfo(v.major, v.minor, v.patch + 1, <<>>, <<>>)

bump_minor(v) == VersionInfo(v.major, v.minor + 1, 0, <<>>, <<>>)

\* bump_major that forgets to reset minor and patch
bump_major_keeps_minor(v) == VersionInfo(v.major + 1, v.minor, v.patch, <<>>, <<>>)

bump_major(v) == VersionInfo(v.major + 1, 0, 0, <<>>, <<>>)

\* the index of the last digit in s, 0 when s has no digit
LastDigitEnd(s) ==
  IF \E i \in 1..Len(s) : s[i] \in DigitSet
  THEN CHOOSE i \in 1..Len(s) :
         s[i] \in DigitSet /\ \A j \in (i + 1)..Len(s) : s[j] \notin DigitSet
  ELSE 0

\* the first index of the run of digits that ends at index e
DigitRunStart(s, e) ==
  CHOOSE i \in 1..e :
    /\ \A j \in i..e : s[j] \in DigitSet
    /\ i = 1 \/ s[i - 1] \notin DigitSet

Max(a, b) == IF a > b THEN a ELSE b

\* _increment_string: the last number in the text plus one, written over
\* the old digits and growing to the left of them no further than their start
increment_string(s) ==
  LET e == LastDigitEnd(s)
  IN  IF e = 0 THEN s
      ELSE LET b    == DigitRunStart(s, e)
               next == IntToStr(ToInt(SubSeq(s, b, e)) + 1)
               keep == Max(e - Len(next), b - 1)
           IN  SubSeq(s, 1, keep) \o next \o SubSeq(s, e + 1, Len(s))

\* bump_prerelease() of a version that has a prerelease
bump_prerelease(v) ==
  VersionInfo(v.major, v.minor, v.patch, increment_string(v.prerelease), <<>>)

\* str((token, 1)): the text of a Python 2-tuple of a str and an int
TupleText(token) == <<"(", "'">> \o token \o <<"'", ",", " ", "1", ")">>

\* base.replace(prerelease=(token, 1)): the constructor stores str() of it
replace_prerelease(base, token) ==
  VersionInfo(base.major, base.minor, base.patch, TupleText(token), base.build)

\* ------------------------------------------------ the script's functions
\* Python's None for an absent VersionInfo
None == [none |-> TRUE]

\* tag_str[1:]
StripFirst(tag_str) == SubSeq(tag_str, 2, Len(tag_str))

\* the loop body that trusts the order of the list: the first tag that parses
\* (the last of the list) stays the latest
LatestStep_first_wins(tag_str, latest_v) ==
  IF ~IsSemver(StripFirst(tag_str)) THEN latest_v
  ELSE IF latest_v = None THEN parse(StripFirst(tag_str)) ELSE latest_v

\* the loop body of get_latest_semver for tags[i], given latest_v so far
LatestStep(tag_str, latest_v) ==
  IF ~IsSemver(StripFirst(tag_str)) THEN latest_v
  ELSE LET v == parse(StripFirst(tag_str))
       IN  IF latest_v = None \/ compare(v, latest_v) > 0 THEN v ELSE latest_v

\* the loop of get_latest_semver over reversed(tags): tags[i], tags[i-1], ...
RECURSIVE LatestLoop(_, _, _)
LatestLoop(tags, i, latest_v) ==
  IF i = 0 THEN latest_v
  ELSE LatestLoop(tags, i - 1, LatestStep(tags[i], latest_v))

\* the version of the last tag of the list, taken for the newest
get_latest_semver_last_tag(tags) ==
  IF Len(tags) = 0 \/ ~IsSemver(StripFirst(tags[Len(tags)])) THEN None
  ELSE parse(StripFirst(tags[Len(tags)]))

get_latest_semver(tags) == LatestLoop(tags, Len(tags), None)

\* the condition of lines 37-40: prerelease is a str, so len() counts its
\* characters and [0] is its first character (a str of length one)
SeriesMatch(v, base_version, token) ==
  /\ v.major = base_version.major
  /\ v.minor = base_version.minor
  /\ v.patch = base_version.patch
  /\ Len(v.prerelease) > 0
  /\ Len(v.prerelease) = 2
  /\ <<v.prerelease[1]>> = token

\* the loop body of get_latest_prerelease_for_base; prerelease[1] of the
\* source is the second character, compared as str (no TypeError arises)
SeriesStep(tag_str, base_version, token, latest) ==
  IF ~IsSemver(StripFirst(tag_str)) THEN latest
  ELSE LET v == parse(StripFirst(tag_str))
       IN  IF SeriesMatch(v, base_version, token)
              /\ (latest = None
                  \/ StrCmp(<<v.prerelease[2]>>, <<latest.prerelease[2]>>) > 0)
           THEN v ELSE latest

RECURSIVE SeriesLoop(_, _, _, _, _)
SeriesLoop(tags, i, base_version, token, latest) ==
  IF i = 0 THEN latest
  ELSE SeriesLoop(tags, i - 1, base_version, token,
                  SeriesStep(tags[i], base_version, token, latest))

get_latest_prerelease_for_base(tags, base_version, token) ==
  SeriesLoop(tags, Len(tags), base_version, token, None)

\* --------------------------------------------------------------- inputs
\* the greatest number of tags the repository holds
MaxTags == 3

\* v1.2.0
V120 == <<"v", "1", ".", "2", ".", "0">>

\* v1.2.0-alpha.1
V120alpha1 == <<"v", "1", ".", "2", ".", "0", "-", "a", "l", "p", "h", "a", ".", "1">>

\* v1.2.0-alpha.10
V120alpha10 == <<"v", "1", ".", "2", ".", "0", "-", "a", "l", "p", "h", "a", ".", "1", "0">>

\* v1.2.0-beta.1
V120beta1 == <<"v", "1", ".", "2", ".", "0", "-", "b", "e", "t", "a", ".", "1">>

\* v1.2.0-rc
V120rc == <<"v", "1", ".", "2", ".", "0", "-", "r", "c">>

\* v1.2.0+b1
V120build == <<"v", "1", ".", "2", ".", "0", "+", "b", "1">>

\* v1.3.1-rc.1
V131rc1 == <<"v", "1", ".", "3", ".", "1", "-", "r", "c", ".", "1">>

\* vnext
Vnext == <<"v", "n", "e", "x", "t">>

\* the tag names a repository is drawn from: finals, prereleases of several
\* series, a prerelease of two characters, build metadata, a name that is no semver
TagUniverse ==
  {V120, V120alpha1, V120alpha10, V120beta1, V120rc, V120build, V131rc1, Vnext}

Alpha == <<"a", "l", "p", "h", "a">>

Beta == <<"b", "e", "t", "a">>

Rc == <<"r", "c">>

PromoteToFinal == <<"p", "r", "o", "m", "o", "t", "e", "_", "t", "o", "_", "f", "i", "n", "a", "l">>

Patch == <<"p", "a", "t", "c", "h">>

Minor == <<"m", "i", "n", "o", "r">>

Major == <<"m", "a", "j", "o", "r">>

Hotfix == <<"h", "o", "t", "f", "i", "x">>

\* BUMP_TYPE unset (os.environ.get gives None) or set to the empty text: both are falsy
Unset == <<>>

KnownBumpTypes == {Alpha, Beta, Rc, PromoteToFinal, Patch, Minor, Major}

\* what the environment may hold in BUMP_TYPE: a known kind, nothing, an unknown kind
BumpTypeValues == KnownBumpTypes \cup {Unset, Hotfix}

\* lists of at most MaxTags distinct tag names, in any order (tag names are
\* unique in a repository; the order git lists them in is not modelled)
TagLists ==
  {l \in UNION {[1..n -> TagUniverse] : n \in 0..MaxTags} :
     \A i, j \in 1..Len(l) : i # j => l[i] # l[j]}

\* ---------------------------------------------------------------- state
VARIABLES
  environ,        \* the value of BUMP_TYPE in the process environment
  git_tags,       \* what `git tag -l v*` lists
  pc,             \* where main() is
  bump_type,      \* main's local
  tags,           \* main's local: the result of get_tags()
  latest_v,       \* main's local: the overall latest version or None
  base_for_series,             \* main's local (line 77) or None
  latest_specific_prerelease,  \* main's local (line 79) or None
  next_v_str,     \* main's local
  is_prerelease,  \* main's local: "true" or "false"
  next_v_tag,     \* main's local
  stdout,         \* the set-output lines printed so far
  stderr,         \* the diagnostics printed so far
  exit_code       \* -1 while running, 0 after main returns, 1 after sys.exit(1)

vars ==
  <<environ, git_tags, pc, bump_type, tags, latest_v, base_for_series,
    latest_specific_prerelease, next_v_str, is_prerelease, next_v_tag,
    stdout, stderr, exit_code>>

inputs == <<environ, git_tags>>

Init ==
  /\ environ \in BumpTypeValues
  /\ git_tags \in TagLists
  /\ pc = "start"
  /\ bump_type = <<>>
  /\ tags = <<>>
  /\ latest_v = None
  /\ base_for_series = None
  /\ latest_specific_prerelease = None
  /\ next_v_str = <<>>
  /\ is_prerelease = "true"
  /\ next_v_tag = <<>>
  /\ stdout = <<>>
  /\ stderr = <<>>
  /\ exit_code = -1

\* sys.exit(1) after a message on stderr
Fatal(message) ==
  /\ stderr' = Append(stderr, message)
  /\ exit_code' = 1
  /\ pc' = "exited"

\* lines 54-57: BUMP_TYPE is missing or empty
BumpTypeNotSet ==
  /\ pc = "start"
  /\ Len(environ) = 0
  /\ Fatal("BUMP_TYPE not set")
  /\ UNCHANGED <<inputs, bump_type, tags, latest_v, base_for_series,
                 latest_specific_prerelease, next_v_str, is_prerelease,
                 next_v_tag, stdout>>

\* lines 54-55: BUMP_TYPE is read
ReadBumpType ==
  /\ pc = "start"
  /\ Len(environ) # 0
  /\ bump_type' = environ
  /\ pc' = "get_tags"
  /\ UNCHANGED <<inputs, tags, latest_v, base_for_series,
                 latest_specific_prerelease, next_v_str, is_prerelease,
                 next_v_tag, stdout, stderr, exit_code>>

\* lines 6-10 and 59: git lists the tags; empty lines are filtered out
GetTags ==
  /\ pc = "get_tags"
  /\ tags' = SelectSeq(git_tags, LAMBDA t : Len(t) > 0)
  /\ pc' = "get_latest"
  /\ UNCHANGED <<inputs, bump_type, latest_v, base_for_series,
                 latest_specific_prerelease, next_v_str, is_prerelease,
                 next_v_tag, stdout, stderr, exit_code>>

\* lines 11-13 and 59: git fails, get_tags reports it and returns []
GetTagsFails ==
  /\ pc = "get_tags"
  /\ tags' = <<>>
  /\ stderr' = Append(stderr, "Error fetching tags")
  /\ pc' = "get_latest"
  /\ UNCHANGED <<inputs, bump_type, latest_v, base_for_series,
                 latest_specific_prerelease, next_v_str, is_prerelease,
                 next_v_tag, stdout, exit_code>>

\* lines 60-63
GetLatest ==
  /\ pc = "get_latest"
  /\ latest_v' = get_latest_semver(tags)
  /\ next_v_str' = <<>>
  /\ is_prerelease' = "true"
  /\ pc' = "branch"
  /\ UNCHANGED <<inputs, bump_type, tags, base_for_series,
                 latest_specific_prerelease, next_v_tag, stdout, stderr,
                 exit_code>>

\* lines 65-67: no version yet, alpha requested
BootstrapAlpha ==
  /\ pc = "branch"
  /\ latest_v = None
  /\ bump_type = Alpha
  /\ next_v_str' = <<"0", ".", "2", ".", "0", "-", "a", "l", "p", "h", "a", ".", "1">>
  /\ pc' = "normalize"
  /\ UNCHANGED <<inputs, bump_type, tags, latest_v, base_for_series,
                 latest_specific_prerelease, is_prerelease, next_v_tag,
                 stdout, stderr, exit_code>>

\* the bootstrap error without its sys.exit(1): main goes on
BootstrapError_falls_through ==
  /\ pc = "branch"
  /\ latest_v = None
  /\ bump_type # Alpha
  /\ stderr' = Append(stderr, "No existing tags found")
  /\ pc' = "normalize"
  /\ UNCHANGED <<inputs, bump_type, tags, latest_v, base_for_series,
                 latest_specific_prerelease, next_v_str, is_prerelease,
                 next_v_tag, stdout, exit_code>>

\* lines 68-70: no version yet, anything else requested
BootstrapError ==
  /\ pc = "branch"
  /\ latest_v = None
  /\ bump_type # Alpha
  /\ Fatal("No existing tags found")
  /\ UNCHANGED <<inputs, bump_type, tags, latest_v, base_for_series,
                 latest_specific_prerelease, next_v_str, is_prerelease,
                 next_v_tag, stdout>>

\* lines 81-92: the next version of the series
NextInSeries(latest_specific, base, token) ==
  IF latest_specific # None
  THEN bump_prerelease(latest_specific)
  ELSE replace_prerelease(base, token)

\* lines 73-93: alpha, beta or rc
PrereleaseBump ==
  /\ pc = "branch"
  /\ latest_v # None
  /\ bump_type \in {Alpha, Beta, Rc}
  /\ LET base   == finalize_version(latest_v)
         latest == get_latest_prerelease_for_base(tags, base, bump_type)
     IN  /\ base_for_series' = base
         /\ latest_specific_prerelease' = latest
         /\ next_v_str' = ToStr(NextInSeries(latest, base, bump_type))
  /\ pc' = "normalize"
  /\ UNCHANGED <<inputs, bump_type, tags, latest_v, is_prerelease,
                 next_v_tag, stdout, stderr, exit_code>>

\* lines 94-97: promote_to_final of a version that is already final
PromoteError ==
  /\ pc = "branch"
  /\ latest_v # None
  /\ bump_type = PromoteToFinal
  /\ Len(latest_v.prerelease) = 0
  /\ Fatal("already final")
  /\ UNCHANGED <<inputs, bump_type, tags, latest_v, base_for_series,
                 latest_specific_prerelease, next_v_str, is_prerelease,
                 next_v_tag, stdout>>

\* promote_to_final without the check of lines 95-97
Promote_unchecked ==
  /\ pc = "branch"
  /\ latest_v # None
  /\ bump_type = PromoteToFinal
  /\ next_v_str' = ToStr(finalize_version(latest_v))
  /\ is_prerelease' = "false"
  /\ pc' = "normalize"
  /\ UNCHANGED <<inputs, bump_type, tags, latest_v, base_for_series,
                 latest_specific_prerelease, next_v_tag, stdout, stderr,
                 exit_code>>

\* lines 94-100: promote_to_final of a prerelease
Promote ==
  /\ pc = "branch"
  /\ latest_v # None
  /\ bump_type = PromoteToFinal
  /\ Len(latest_v.prerelease) # 0
  /\ next_v_str' = ToStr(finalize_version(latest_v))
  /\ is_prerelease' = "false"
  /\ pc' = "normalize"
  /\ UNCHANGED <<inputs, bump_type, tags, latest_v, base_for_series,
                 latest_specific_prerelease, next_v_tag, stdout, stderr,
                 exit_code>>

\* lines 101-106
BumpPatch ==
  /\ pc = "branch"
  /\ latest_v # None
  /\ bump_type = Patch
  /\ next_v_str' = ToStr(bump_patch(finalize_version(latest_v)))
  /\ is_prerelease' = "false"
  /\ pc' = "normalize"
  /\ UNCHANGED <<inputs, bump_type, tags, latest_v, base_for_series,
                 latest_specific_prerelease, next_v_tag, stdout, stderr,
                 exit_code>>

\* lines 107-111
BumpMinor ==
  /\ pc = "branch"
  /\ latest_v # None
  /\ bump_type = Minor
  /\ next_v_str' = ToStr(bump_minor(finalize_version(latest_v)))
  /\ is_prerelease' = "false"
  /\ pc' = "normalize"
  /\ UNCHANGED <<inputs, bump_type, tags, latest_v, base_for_series,
                 latest_specific_prerelease, next_v_tag, stdout, stderr,
                 exit_code>>

\* lines 112-116
BumpMajor ==
  /\ pc = "branch"
  /\ latest_v # None
  /\ bump_type = Major
  /\ next_v_str' = ToStr(bump_major(finalize_version(latest_v)))
  /\ is_prerelease' = "false"
  /\ pc' = "normalize"
  /\ UNCHANGED <<inputs, bump_type, tags, latest_v, base_for_series,
                 latest_specific_prerelease, next_v_tag, stdout, stderr,
                 exit_code>>

\* the unknown bump type without its sys.exit(1): main goes on
UnknownBumpType_falls_through ==
  /\ pc = "branch"
  /\ latest_v # None
  /\ bump_type \notin KnownBumpTypes
  /\ stderr' = Append(stderr, "Unknown BUMP_TYPE")
  /\ pc' = "normalize"
  /\ UNCHANGED <<inputs, bump_type, tags, latest_v, base_for_series,
                 latest_specific_prerelease, next_v_str, is_prerelease,
                 next_v_tag, stdout, exit_code>>

\* lines 117-119: a bump type that is none of the seven
UnknownBumpType ==
  /\ pc = "branch"
  /\ latest_v # None
  /\ bump_type \notin KnownBumpTypes
  /\ Fatal("Unknown BUMP_TYPE")
  /\ UNCHANGED <<inputs, bump_type, tags, latest_v, base_for_series,
                 latest_specific_prerelease, next_v_str, is_prerelease,
                 next_v_tag, stdout>>

\* next_v_str.startswith('v')
StartsWithV(s) == Len(s) > 0 /\ s[1] = "v"

\* lines 121-124
NormalizeTag ==
  /\ pc = "normalize"
  /\ next_v_tag' = IF ~StartsWithV(next_v_str) THEN <<"v">> \o next_v_str
                   ELSE next_v_str
  /\ pc' = "emit_version"
  /\ UNCHANGED <<inputs, bump_type, tags, latest_v, base_for_series,
                 latest_specific_prerelease, next_v_str, is_prerelease,
                 stdout, stderr, exit_code>>

\* lines 127-128
EmitNextVersion ==
  /\ pc = "emit_version"
  /\ stderr' = Append(stderr, "Calculated next version")
  /\ stdout' = Append(stdout, [name |-> "next_version", value |-> next_v_tag])
  /\ pc' = "emit_prerelease"
  /\ UNCHANGED <<inputs, bump_type, tags, latest_v, base_for_series,
                 latest_specific_prerelease, next_v_str, is_prerelease,
                 next_v_tag, exit_code>>

\* line 129, and main returns
EmitIsPrerelease ==
  /\ pc = "emit_prerelease"
  /\ stdout' = Append(stdout, [name |-> "is_prerelease", value |-> is_prerelease])
  /\ exit_code' = 0
  /\ pc' = "done"
  /\ UNCHANGED <<inputs, bump_type, tags, latest_v, base_for_series,
                 latest_specific_prerelease, next_v_str, is_prerelease,
                 next_v_tag, stderr>>

Next ==
  \/ BumpTypeNotSet
  \/ ReadBumpType
  \/ GetTags
  \/ GetTagsFails
  \/ GetLatest
  \/ BootstrapAlpha
  \/ BootstrapError
  \/ PrereleaseBump
  \/ PromoteError
  \/ Promote
  \/ BumpPatch
  \/ BumpMinor
  \/ BumpMajor
  \/ UnknownBumpType
  \/ NormalizeTag
  \/ EmitNextVersion
  \/ EmitIsPrerelease

Spec == Init /\ [][Next]_vars

\* -------------------------------------------------- the resolver as a function
\* what one run of main() on a tag list and a (non-empty) bump type ends in:
\* the two values printed, or a fatal error
Ok(text, flag) == [status |-> "ok", next_tag |-> <<"v">> \o text, is_prerelease |-> flag]

FatalOutcome == [status |-> "fatal", next_tag |-> <<>>, is_prerelease |-> ""]

\* lines 60-129 as a function of tags and bump_type
Resolve(tag_list, bump) ==
  LET latest == get_latest_semver(tag_list)
  IN  IF latest = None
      THEN IF bump = Alpha
           THEN Ok(<<"0", ".", "2", ".", "0", "-", "a", "l", "p", "h", "a", ".", "1">>, "true")
           ELSE FatalOutcome
      ELSE IF bump \in {Alpha, Beta, Rc}
      THEN LET base == finalize_version(latest)
           IN  Ok(ToStr(NextInSeries(get_latest_prerelease_for_base(tag_list, base, bump),
                                     base, bump)), "true")
      ELSE IF bump = PromoteToFinal
      THEN IF Len(latest.prerelease) = 0 THEN FatalOutcome
           ELSE Ok(ToStr(finalize_version(latest)), "false")
      ELSE IF bump = Patch THEN Ok(ToStr(bump_patch(finalize_version(latest))), "false")
      ELSE IF bump = Minor THEN Ok(ToStr(bump_minor(finalize_version(latest))), "false")
      ELSE IF bump = Major THEN Ok(ToStr(bump_major(finalize_version(latest))), "false")
      ELSE FatalOutcome

\* ------------------------------------------------ vocabulary of the properties
Terminated == pc \in {"done", "exited"}

\* what the run ended in, read off the process: its output and exit code
Outcome ==
  IF pc = "done" /\ exit_code = 0 /\ Len(stdout) = 2
  THEN [status |-> "ok", next_tag |-> stdout[1].value, is_prerelease |-> stdout[2].value]
  ELSE FatalOutcome

\* a result was produced: both lines, in order, and a normal exit
Produced(tag, flag) ==
  /\ pc = "done"
  /\ exit_code = 0
  /\ stdout = <<[name |-> "next_version", value |-> tag],
                [name |-> "is_prerelease", value |-> flag]>>

\* a fatal error: non-zero exit and nothing printed on stdout
FatalError == pc = "exited" /\ exit_code = 1 /\ stdout = <<>>

IsParseable(tag_str) == IsSemver(StripFirst(tag_str))

\* the versions of the tags that parse
Parsed(tag_list) ==
  {parse(StripFirst(tag_list[i])) : i \in {j \in 1..Len(tag_list) : IsParseable(tag_list[j])}}

SameCore(a, b) == a.major = b.major /\ a.minor = b.minor /\ a.patch = b.patch

\* a is not above b in semver precedence: major, then minor, then patch; with
\* these equal, a prerelease is below the version without one, and two
\* prereleases compare part by part
PrecedesOrEqual(a, b) ==
  \/ a.major < b.major
  \/ a.major = b.major /\ a.minor < b.minor
  \/ a.major = b.major /\ a.minor = b.minor /\ a.patch < b.patch
  \/ /\ SameCore(a, b)
     /\ \/ Len(b.prerelease) = 0
        \/ Len(a.prerelease) # 0 /\ NatCmp(a.prerelease, b.prerelease) <= 0

IsMaximum(v, versions) == v \in versions /\ \A w \in versions : PrecedesOrEqual(w, v)

\* the overall latest version of a tag list with a parseable tag
LatestOverall(tag_list) ==
  LET versions == Parsed(tag_list)
  IN  CHOOSE v \in versions : IsMaximum(v, versions)

\* "major.minor.patch"
CoreStr(major, minor, patch) ==
  IntToStr(major) \o <<".">> \o IntToStr(minor) \o <<".">> \o IntToStr(patch)

\* the members of a series: same core as base, a prerelease of exactly two
\* identifiers, the first the token and the second a number
InSeries(v, base, token) ==
  /\ SameCore(v, base)
  /\ Len(v.prerelease) # 0
  /\ LET ids == Split(v.prerelease, ".")
     IN  Len(ids) = 2 /\ ids[1] = token /\ AllDigits(ids[2])

SeriesNumber(v) == ToInt(Split(v.prerelease, ".")[2])

Series(tag_list, base, token) == {v \in Parsed(tag_list) : InSeries(v, base, token)}

\* the greatest number of the series, 0 when the series is empty
GreatestNumber(tag_list, base, token) ==
  IF Series(tag_list, base, token) = {} THEN 0
  ELSE CHOOSE n \in {SeriesNumber(v) : v \in Series(tag_list, base, token)} :
         \A v \in Series(tag_list, base, token) : SeriesNumber(v) <= n

\* l with the elements at positions i and j exchanged
Transposed(l, i, j) ==
  [k \in 1..Len(l) |-> IF k = i THEN l[j] ELSE IF k = j THEN l[i] ELSE l[k]]

PastBranch == pc \in {"normalize", "emit_version", "emit_prerelease", "done"}

\* ------------------------------------------------------------------ C1
\* C1: for a tag list with a parseable tag and a request alpha, beta or rc,
\* the result is base-token.(N+1), N the greatest number of the series of
\* that base and token (0 when the series is empty), with is_prerelease true.
C1_SeriesContinuity ==
  (Terminated /\ bump_type \in {Alpha, Beta, Rc} /\ Parsed(tags) # {}) =>
    LET base == finalize_version(LatestOverall(tags))
    IN  Produced(<<"v">> \o CoreStr(base.major, base.minor, base.patch) \o <<"-">>
                   \o bump_type \o <<".">>
                   \o IntToStr(GreatestNumber(tags, base, bump_type) + 1),
                 "true")

\* ------------------------------------------------------------------ C2
\* C2: for a tag list with a parseable tag, with f the finalized overall
\* latest: patch gives f.major.f.minor.(f.patch+1), minor gives
\* f.major.(f.minor+1).0, major gives (f.major+1).0.0; no prerelease in the
\* result and is_prerelease false.
C2_FinalBumps ==
  (Terminated /\ bump_type \in {Patch, Minor, Major} /\ Parsed(tags) # {}) =>
    LET f == LatestOverall(tags)
    IN  /\ bump_type = Patch =>
             Produced(<<"v">> \o CoreStr(f.major, f.minor, f.patch + 1), "false")
        /\ bump_type = Minor =>
             Produced(<<"v">> \o CoreStr(f.major, f.minor + 1, 0), "false")
        /\ bump_type = Major =>
             Produced(<<"v">> \o CoreStr(f.major + 1, 0, 0), "false")

\* a minor bump was produced from a latest version with a non-zero patch and
\* a prerelease, among three tags
C2_Witness ==
  /\ pc = "done"
  /\ bump_type = Minor
  /\ Len(tags) = 3
  /\ latest_v # None
  /\ latest_v = parse(StripFirst(V131rc1))

\* ------------------------------------------------------------------ C3
\* C3: promote_to_final on a tag list whose overall latest is L: when L has a
\* prerelease the result is L's major.minor.patch with is_prerelease false;
\* when L has none the run ends in a fatal error and prints no result.
C3_Promote ==
  (Terminated /\ bump_type = PromoteToFinal /\ Parsed(tags) # {}) =>
    LET L == LatestOverall(tags)
    IN  IF Len(L.prerelease) # 0
        THEN Produced(<<"v">> \o CoreStr(L.major, L.minor, L.patch), "false")
        ELSE FatalError

\* the promotion of a final version was refused, on a list that also holds
\* a prerelease of that version
C3_Witness ==
  /\ pc = "exited"
  /\ bump_type = PromoteToFinal
  /\ latest_v # None
  /\ \E i \in 1..Len(tags) : tags[i] = V120alpha1

\* ------------------------------------------------------------------ C4
\* C4: when no tag parses (empty list or only unparseable tags), alpha gives
\* v0.2.0-alpha.1 with is_prerelease true and every other request ends in a
\* fatal error with no result.
C4_Bootstrap ==
  (Terminated /\ Parsed(tags) = {}) =>
    IF bump_type = Alpha
    THEN Produced(<<"v", "0", ".", "2", ".", "0", "-", "a", "l", "p", "h", "a", ".", "1">>,
                  "true")
    ELSE FatalError

\* the first alpha was produced from a list that holds only an unparseable tag
C4_Witness ==
  /\ pc = "done"
  /\ tags = <<Vnext>>
  /\ bump_type = Alpha

\* ------------------------------------------------------------------ C5
\* C5 as stated: tags [v1.2.0, v1.2.0-alpha.1] and request patch give
\* v1.3.0 with is_prerelease false.
C5_Original ==
  (Terminated /\ tags = <<V120, V120alpha1>> /\ bump_type = Patch) =>
    Produced(<<"v", "1", ".", "3", ".", "0">>, "false")

\* C5 amended: tags [v1.2.0, v1.2.0-alpha.1] and request patch give
\* v1.2.1 with is_prerelease false.
C5_Amended ==
  (Terminated /\ tags = <<V120, V120alpha1>> /\ bump_type = Patch) =>
    Produced(<<"v", "1", ".", "2", ".", "1">>, "false")

\* the scenario ran to its end
C5_Witness == Terminated /\ tags = <<V120, V120alpha1>> /\ bump_type = Patch

\* ------------------------------------------------------------------ C6
\* C6: a bump type that is missing or not one of the seven ends in a fatal
\* error; a run that ends in a fatal error has printed neither next_version
\* nor is_prerelease; a run that ends without error has printed both.
C6_NoPartialResult ==
  /\ (Terminated /\ environ \notin KnownBumpTypes) => FatalError
  /\ exit_code = 1 => stdout = <<>>
  /\ pc = "exited" => exit_code = 1
  /\ pc = "done" =>
       /\ exit_code = 0
       /\ Len(stdout) = 2
       /\ stdout[1].name = "next_version"
       /\ stdout[2].name = "is_prerelease"

\* an unknown bump type was refused although the tags have a latest version
C6_Witness ==
  /\ pc = "exited"
  /\ bump_type = Hotfix
  /\ latest_v # None

\* ------------------------------------------------------------------ C7
\* C7: get_latest_semver returns a maximum, in semver precedence, of the tags
\* that parse, skipping those that do not, and None when none parses.
C7_LatestIsMaximum ==
  pc = "branch" =>
    LET versions == Parsed(tags)
    IN  IF versions = {} THEN latest_v = None
        ELSE IsMaximum(latest_v, versions)

\* the maximum was found in first place of three tags, past an unparseable
\* tag and a lower one
C7_Witness ==
  /\ pc = "branch"
  /\ Len(tags) = 3
  /\ latest_v # None
  /\ IsParseable(tags[1]) /\ latest_v = parse(StripFirst(tags[1]))
  /\ ~IsParseable(tags[2])
  /\ IsParseable(tags[3])

\* ------------------------------------------------------------------ C8
\* C8: the outcome does not depend on the order of the tag list: the outcome
\* of the run is the outcome of the resolver on its tag list, and on that
\* list with any two of its tags exchanged.  Every list of TagLists is the
\* tag list of some run and every permutation is a chain of such exchanges,
\* so any two orders of the same tags give the same outcome.
C8_OrderIndependent ==
  (Terminated /\ Len(environ) # 0) =>
    /\ Resolve(tags, bump_type) = Outcome
    /\ \A i, j \in 1..Len(tags) :
         i < j => Resolve(Transposed(tags, i, j), bump_type) = Outcome

\* a result came from three tags whose latest stands first in the list
C8_Witness ==
  /\ pc = "done"
  /\ Len(tags) = 3
  /\ tags[1] = V131rc1
  /\ bump_type = PromoteToFinal

\* ------------------------------------------------------------------ C9
\* C9: get_latest_prerelease_for_base returns the tag with the greatest
\* numeric second identifier among the parseable tags of that base whose
\* prerelease is exactly token.number, and None when no tag qualifies.
C9_LatestInSeries ==
  (PastBranch /\ bump_type \in {Alpha, Beta, Rc} /\ latest_v # None) =>
    IF Series(tags, base_for_series, bump_type) = {}
    THEN latest_specific_prerelease = None
    ELSE /\ latest_specific_prerelease \in Series(tags, base_for_series, bump_type)
         /\ SeriesNumber(latest_specific_prerelease)
              = GreatestNumber(tags, base_for_series, bump_type)

\* ------------------------------------------------------------------ C10
\* the text is the version of v, with or without v's build metadata
IsVersionOf(text, v) == text = ToStr(v) \/ text = ToStr([v EXCEPT !.build = <<>>])

\* C10: when a result is produced, its version is the version of no
\* parseable tag of the list.
C10_Fresh ==
  pc = "done" =>
    \A v \in Parsed(tags) : ~IsVersionOf(StripFirst(stdout[1].value), v)

\* a result was produced from a list of three parseable tags
C10_Witness ==
  /\ pc = "done"
  /\ Len(tags) = 3
  /\ \A i \in 1..3 : IsParseable(tags[i])
  /\ bump_type = Major

====
